---- MODULE Spec2Model ----
(***************************************************************************)
(* The slash-command suggestion plugin (Suggestion) as a state machine.    *)
(*                                                                         *)
(* The editor holds one textblock; its text is `doc`, a sequence of        *)
(* one-character strings, and document positions follow the framework's    *)
(* numbering: the textblock opens at position TextFrom and its k-th        *)
(* character lies between positions TextFrom + k and TextFrom + k + 1.     *)
(*                                                                         *)
(* JavaScript values: an object is a record whose DOMAIN is the set of its *)
(* defined properties (a property that is absent or was assigned           *)
(* `undefined` is not in the DOMAIN); a text (text, query) is a sequence  *)
(* of characters, `null` is the value Null, and ids and names are strings. *)
(***************************************************************************)
EXTENDS Integers, Sequences, FiniteSets, TLC

\* ---------------------------------------------------------------- bounds
MaxLen == 3         \* longest text of the textblock
NumIds == 2         \* distinct outcomes of Math.random() for a decoration id
MaxShift == 12      \* how far, in percent, a resize moves the gutter off the middle

Chars == {"/", "a", " "}

\* -------------------------------------------------------- program values
char == "/"
decorationTag == "span"
decorationClass == "suggestion"
TextFrom == 0

Null == <<"null">>
Hooks == {"onStart", "onUpdate", "onExit", "onKeyDown"}
\* The renderers tried: render's default, key handling alone, a popup without
\* key handling, and every hook
Renderers == {{}, {"onKeyDown"}, Hooks \ {"onKeyDown"}, Hooks}
HookResults == {"true", "false", "undefined"}
ItemLists == {<<>>, <<"item">>}

VARIABLES
    doc,        \* text of the textblock
    selection,  \* [from, to] of the editor selection
    pstate,     \* the plugin state object of view.state
    renderer,   \* the hooks the object returned by render() defines
    decos,      \* what decorations(view.state) returned at the last redraw
    dom,        \* the decoration elements in the document after that redraw
    typed,      \* observation: handleTextInput saw text since apply last returned an inactive state
    obs,        \* observation: what the operation that ran last did
    mounted,    \* the project-board Editor is mounted: ref.current is its left pane
    pointerEvents,  \* style.pointerEvents of the left pane ("" while never set)
    sizes,      \* the `sizes` state of the Editor
    storage,    \* localStorage: the items under 'project-board-splitter-sizes', at most one
    dragging,   \* observation: a resize started and none finished since
    resized     \* observation: the Editor operation that ran last, and the sizes it reported

suggestionVars == <<doc, selection, pstate, renderer, decos, dom, typed, obs>>
editorVars == <<mounted, pointerEvents, sizes, storage, dragging, resized>>
vars == <<doc, selection, pstate, renderer, decos, dom, typed, obs,
          mounted, pointerEvents, sizes, storage, dragging, resized>>

\* The observation of one operation: the call of apply, the view update that ran
\* to its end and the call of handleKeyDown in it, each a sequence of at most one
Observe(applyCall, updateRun, keyCall) ==
    [applied |-> applyCall, upd |-> updateRun, key |-> keyCall]

applied == obs.applied
upd == obs.upd
key == obs.key

\* ------------------------------------------------------------ JS helpers
\* obj.f is neither undefined nor absent
Has(obj, f) == f \in DOMAIN obj

\* obj.f = v
SetField(obj, f, v) == [k \in DOMAIN obj \cup {f} |-> IF k = f THEN v ELSE obj[k]]

\* obj.f = undefined
Unset(obj, f) == [k \in DOMAIN obj \ {f} |-> obj[k]]

\* `${obj.f}`
Template(obj, f) == IF Has(obj, f) THEN obj[f] ELSE "undefined"

\* ------------------------------------------------------- framework model
\* $position.doc.textBetween(textFrom, textTo, '\0', '\0') inside the textblock
TextBetween(d, textFrom, textTo) == SubSeq(d, 1, textTo - textFrom - 1)

IsSpace(c) == c = " "

\* /(\S+)$/.exec(text): the match [0], or Null when the text does not end in a word
RECURSIVE WordStart(_, _)
WordStart(text, i) ==
    IF i >= 1 /\ ~IsSpace(text[i]) THEN WordStart(text, i - 1) ELSE i + 1

LastWord(text) ==
    LET start == WordStart(text, Len(text))
    IN  IF start > Len(text) THEN Null ELSE SubSeq(text, start, Len(text))

\* `id_${Math.floor(Math.random() * 0xFFFFFFFF)}`
RandomId(rnd) == "id_" \o ToString(rnd)

\* ------------------------------------------------------------ state.init
PluginInit ==
    [active |-> FALSE, query |-> Null, text |-> Null, wasCharTyped |-> FALSE]

\* ----------------------------------------------------------- state.apply
\* (variant) the inactive state keeps its range
EmptyIfInactiveKeepsRange(next) ==
    IF ~next.active
    THEN Unset([next EXCEPT !.wasCharTyped = FALSE,
                            !.query = Null,
                            !.text = Null], "decorationID")
    ELSE next

\* (variant) the inactive state keeps wasCharTyped
EmptyIfInactiveKeepsTyped(next) ==
    IF ~next.active
    THEN Unset(Unset([next EXCEPT !.query = Null, !.text = Null], "decorationID"), "range")
    ELSE next

\* "Make sure to empty the range if suggestion is inactive"
EmptyIfInactive(next) ==
    IF ~next.active
    THEN Unset(Unset([next EXCEPT !.wasCharTyped = FALSE,
                                  !.query = Null,
                                  !.text = Null], "decorationID"), "range")
    ELSE next

\* (variant) the previous range is never taken as left
LeftRangeNever(sel, prev) == FALSE

\* "Reset active state if we just left the previous suggestion range"
LeftRange(sel, prev) ==
    Has(prev, "range") /\ (sel.from < prev.range.from \/ sel.from > prev.range.to)

MatchRange(textFrom, text, match) ==
    [from |-> textFrom + Len(text) - Len(match) + 1,
     to   |-> textFrom + Len(text) + 1]

\* The object built when allow() accepts the range
Activate(next, prev, range, match, rnd) ==
    SetField(SetField([next EXCEPT !.active = TRUE, !.text = match, !.query = match],
                      "decorationID",
                      IF Has(prev, "decorationID") THEN prev.decorationID ELSE RandomId(rnd)),
             "range", range)

\* (variant) the answer of allow() is not looked at
OnMatchIgnoringAllow(next, prev, range, match, allowed, rnd) ==
    Activate(next, prev, range, match, rnd)

\* if (allow({ editor, range })) { ... } else { next.active = false }
OnMatch(next, prev, range, match, allowed, rnd) ==
    IF allowed
    THEN Activate(next, prev, range, match, rnd)
    ELSE [next EXCEPT !.active = FALSE]

\* The candidate range apply hands to allow(), as a sequence of at most one range
Candidate(sel, d, prev) ==
    LET text == TextBetween(d, TextFrom, sel.from)
    IN  IF prev.wasCharTyped /\ sel.from = sel.to /\ text # <<>> /\ LastWord(text) # Null
        THEN <<MatchRange(TextFrom, text, LastWord(text))>>
        ELSE <<>>

\* apply(transaction, prev), where allow() answers `allowed` and Math.random() `rnd`
Apply(sel, d, prev, allowed, rnd) ==
    LET off == [prev EXCEPT !.active = FALSE]
    IN  IF ~prev.wasCharTyped
        THEN EmptyIfInactive(off)
        ELSE IF sel.from = sel.to
        THEN LET reset == IF LeftRange(sel, prev) THEN off ELSE prev
                 text  == TextBetween(d, TextFrom, sel.from)
                 match == LastWord(text)
             IN  IF text # <<>>
                 THEN IF match # Null
                      THEN EmptyIfInactive(
                               OnMatch(reset, prev, MatchRange(TextFrom, text, match),
                                       match, allowed, rnd))
                      ELSE EmptyIfInactive([reset EXCEPT !.active = FALSE])
                 ELSE EmptyIfInactive(reset)
        ELSE EmptyIfInactive(off)

\* ----------------------------------------------------- props.decorations
NoDecorations == <<>>

\* (variant) the decoration is tagged through the property name update looks up
DecorationsOtherKey(state) ==
    IF ~Has(state, "range")
    THEN NoDecorations
    ELSE IF ~state.active
    THEN NoDecorations
    ELSE <<[from |-> state.range.from,
            to |-> state.range.to,
            nodeName |-> decorationTag,
            class |-> decorationClass,
            dataDecorationId |-> Template(state, "decorationId")]>>

Decorations(state) ==
    IF ~Has(state, "range")
    THEN NoDecorations
    ELSE IF ~state.active
    THEN NoDecorations
    ELSE <<[from |-> state.range.from,
            to |-> state.range.to,
            nodeName |-> decorationTag,
            class |-> decorationClass,
            dataDecorationId |-> Template(state, "decorationID")]>>

\* The elements the view draws for inline decorations: one per decoration that
\* covers at least one character of the text
Render(d, decorations) ==
    { <<decorations[i].nodeName, decorations[i].class, decorations[i].dataDecorationId>> :
        i \in { j \in 1..Len(decorations) :
                  \E k \in 1..Len(d) : /\ decorations[j].from <= TextFrom + k
                                       /\ TextFrom + k + 1 <= decorations[j].to } }

\* document.querySelector(`[data-decoration-id="${id}"]`)
QuerySelector(elements, id) ==
    IF \E e \in elements : e[3] = id
    THEN CHOOSE e \in elements : e[3] = id
    ELSE Null

\* ----------------------------------------------------------- view.update
Moved(prev, next) == prev.active /\ next.active /\ prev.range.from # next.range.from
Started(prev, next) == ~prev.active /\ next.active
Stopped(prev, next) == prev.active /\ ~next.active
\* (variant) changed without its guards
ChangedUnguarded(prev, next) == prev.query # next.query

Changed(prev, next) == ~Started(prev, next) /\ ~Stopped(prev, next) /\ prev.query # next.query
HandleStart(prev, next) == Started(prev, next) \/ Moved(prev, next)
HandleChange(prev, next) == Changed(prev, next) /\ ~Moved(prev, next)
HandleExit(prev, next) == Stopped(prev, next) \/ Moved(prev, next)

\* const state = handleExit && !handleStart ? prev : next
PropsState(prev, next) ==
    IF HandleExit(prev, next) /\ ~HandleStart(prev, next) THEN prev ELSE next

\* The key of the decoration node lookup
LookupId(state) == Template(state, "decorationId")

\* (variant) items is called on every update that reaches the props
NeedsItemsAlways(prev, next) == TRUE

\* Whether the update awaits items(state.query)
NeedsItems(prev, next) == HandleChange(prev, next) \/ HandleStart(prev, next)

\* The props object; `items` is the list the items promise gave, or [] without a call
Props(state, items, decorationNode) ==
    [range |-> state.range,
     query |-> state.query,
     text |-> state.text,
     items |-> items,
     decorationNode |-> decorationNode,
     clientRect |-> IF decorationNode # Null
                    THEN <<"getBoundingClientRect", decorationNode[3]>>
                    ELSE Null]

\* renderer?.hook?.(props)
Call(hooks, hook) == IF hook \in hooks THEN <<hook>> ELSE <<>>

\* The hooks the tail of update calls, in order
Invoked(hooks, prev, next) ==
    (IF HandleExit(prev, next) THEN Call(hooks, "onExit") ELSE <<>>)
    \o (IF HandleChange(prev, next) THEN Call(hooks, "onUpdate") ELSE <<>>)
    \o (IF HandleStart(prev, next) THEN Call(hooks, "onStart") ELSE <<>>)

\* What one finished update did
Finished(hooks, prev, next, elements, itemsCalls, items) ==
    [prev |-> prev,
     next |-> next,
     elements |-> elements,
     itemsCalls |-> itemsCalls,
     invoked |-> Invoked(hooks, prev, next),
     props |-> Props(PropsState(prev, next), items,
                     QuerySelector(elements, LookupId(PropsState(prev, next))))]

\* update(view, prevState) after the call applyCall of apply. The props are built,
\* and the decoration node looked up, before `await items(state.query)`; after it
\* update reads only the flags and the props, so the promise is taken to settle,
\* giving `items`, before the next event
ViewUpdate(applyCall, prev, next, elements, items) ==
    IF ~HandleStart(prev, next) /\ ~HandleChange(prev, next) /\ ~HandleExit(prev, next)
    THEN obs' = Observe(<<applyCall>>,
                        <<[prev |-> prev, next |-> next, elements |-> elements,
                           itemsCalls |-> <<>>, invoked |-> <<>>, props |-> <<>>]>>,
                        <<>>)
    ELSE IF NeedsItems(prev, next)
    THEN obs' = Observe(<<applyCall>>,
                        <<Finished(renderer, prev, next, elements,
                                   <<PropsState(prev, next).query>>, items)>>,
                        <<>>)
    ELSE obs' = Observe(<<applyCall>>,
                        <<Finished(renderer, prev, next, elements, <<>>, <<>>)>>,
                        <<>>)

\* ------------------------------------------------------------ dispatch
\* The view applies a transaction giving text newDoc and selection newSel: apply
\* computes the plugin state, the view redraws the decorations, and the plugin
\* view's update runs
Dispatch(newDoc, newSel) ==
    LET prev == pstate
        cand == Candidate(newSel, newDoc, prev)
    IN  \* allow() and Math.random() answer only where apply calls them
        \E allowed \in IF cand # <<>> THEN BOOLEAN ELSE {TRUE} :
        \E rnd \in IF cand # <<>> /\ allowed /\ ~Has(prev, "decorationID")
                    THEN 0..(NumIds - 1) ELSE {0} :
        \E next \in {Apply(newSel, newDoc, prev, allowed, rnd)} :
        \E elements \in {Render(newDoc, Decorations(next))} :
        \* items() answers only where update calls it
        \E items \in IF NeedsItems(prev, next) THEN ItemLists ELSE {<<>>} :
            /\ doc' = newDoc
            /\ selection' = newSel
            /\ pstate' = next
            /\ typed' = IF next.active THEN typed ELSE FALSE
            /\ decos' = Decorations(next)
            /\ dom' = elements
            /\ ViewUpdate([prev |-> prev, next |-> next, selection |-> newSel,
                           allow |-> IF cand = <<>> THEN <<>>
                                     ELSE <<[range |-> cand[1], result |-> allowed]>>],
                          prev, next, elements, items)
            /\ UNCHANGED renderer
            /\ UNCHANGED editorVars

\* Index in the text of the character after position pos
At(pos) == pos - TextFrom

InsertText ==
    \E c \in Chars :
        LET newDoc == SubSeq(doc, 1, At(selection.from) - 1) \o <<c>>
                      \o SubSeq(doc, At(selection.to), Len(doc))
        IN  /\ Len(newDoc) <= MaxLen
            /\ Dispatch(newDoc, [from |-> selection.from + 1, to |-> selection.from + 1])

DeleteText ==
    IF selection.from < selection.to
    THEN Dispatch(SubSeq(doc, 1, At(selection.from) - 1)
                      \o SubSeq(doc, At(selection.to), Len(doc)),
                  [from |-> selection.from, to |-> selection.from])
    ELSE /\ At(selection.from) > 1
         /\ Dispatch(SubSeq(doc, 1, At(selection.from) - 2)
                         \o SubSeq(doc, At(selection.from), Len(doc)),
                     [from |-> selection.from - 1, to |-> selection.from - 1])

SetSelection ==
    \E f \in (TextFrom + 1)..(TextFrom + Len(doc) + 1) :
        \E t \in f..(TextFrom + Len(doc) + 1) :
            Dispatch(doc, [from |-> f, to |-> t])

\* ------------------------------------------------- props.handleTextInput
HandleTextInput ==
    \E text \in {<<>>} \cup { <<c>> : c \in Chars } :
        /\ pstate' = IF text # <<>> THEN [pstate EXCEPT !.wasCharTyped = TRUE] ELSE pstate
        /\ typed' = (typed \/ text # <<>>)
        /\ obs' = Observe(<<>>, <<>>, <<>>)
        /\ UNCHANGED <<doc, selection, renderer, decos, dom>>
        /\ UNCHANGED editorVars

\* --------------------------------------------------- props.handleKeyDown
\* (variant) the hook is called whatever the state
KeyDownUnguarded(hooks, state, hookResult) ==
    [called |-> "onKeyDown" \in hooks,
     returned |-> IF "onKeyDown" \in hooks /\ hookResult = "true"
                  THEN hookResult ELSE "false"]

\* What handleKeyDown does when the onKeyDown hook, if called, answers hookResult
KeyDown(hooks, state, hookResult) ==
    IF ~state.active
    THEN [called |-> FALSE, returned |-> "false"]
    ELSE IF ~Has(state, "range")
    THEN [called |-> FALSE, returned |-> "false"]
    ELSE [called |-> "onKeyDown" \in hooks,
          returned |-> IF "onKeyDown" \in hooks /\ hookResult = "true"
                       THEN hookResult ELSE "false"]

HandleKeyDown ==
    \* the hook answers only where handleKeyDown calls it
    \E hookResult \in IF KeyDown(renderer, pstate, "undefined").called
                       THEN HookResults ELSE {"undefined"} :
        /\ obs' = Observe(<<>>, <<>>,
                          <<[active |-> pstate.active,
                             hasRange |-> Has(pstate, "range"),
                             hookResult |-> hookResult,
                             did |-> KeyDown(renderer, pstate, hookResult)]>>)
        /\ UNCHANGED <<doc, selection, pstate, renderer, decos, dom, typed>>
        /\ UNCHANGED editorVars

\* ------------------------------------------------- project-board Editor
\* useLocalStorage('project-board-splitter-sizes', [50, 50])
DefaultSizes == <<50, 50>>

\* The sizes, in percent, a resize of the two panes can report
SizeChoices ==
    {DefaultSizes}
    \cup { <<DefaultSizes[1] - d, DefaultSizes[2] + d>> : d \in 1..MaxShift }
    \cup { <<DefaultSizes[1] + d, DefaultSizes[2] - d>> : d \in 1..MaxShift }

\* JSON.stringify of a sizes array, as useLocalStorage stores it
Stringify(value) == "[" \o ToString(value[1]) \o "," \o ToString(value[2]) \o "]"

\* JSON.parse of a stored item
Parse(item) == CHOOSE value \in SizeChoices : Stringify(value) = item

\* The value useLocalStorage gives on mount: the stored item, or the default
ReadSizes(store) == IF store # <<>> THEN Parse(store[1]) ELSE DefaultSizes

\* setSizes(newSizes): the item written to localStorage
SetSizes(store, newSizes) == <<Stringify(newSizes)>>

\* (variant) handleResize leaves the pane as onResizeStart set it
HandleResizePointerEventsNone(refCurrent, style) ==
    IF refCurrent THEN "none" ELSE style

\* handleResize: if (ref.current) ref.current.style.pointerEvents = 'auto'
HandleResizePointerEvents(refCurrent, style) ==
    IF refCurrent THEN "auto" ELSE style

\* onResizeStart: if (ref.current) ref.current.style.pointerEvents = 'none'
OnResizeStartPointerEvents(refCurrent, style) ==
    IF refCurrent THEN "none" ELSE style

\* The Splitter calls onResizeStarted
OnResizeStart ==
    /\ mounted
    /\ pointerEvents' = OnResizeStartPointerEvents(mounted, pointerEvents)
    /\ dragging' = TRUE
    /\ resized' = [op |-> "start", newSizes |-> <<>>]
    /\ UNCHANGED <<mounted, sizes, storage>>
    /\ UNCHANGED suggestionVars

\* The Splitter calls onResizeFinished(_, newSizes)
HandleResize ==
    \E newSizes \in SizeChoices :
        /\ mounted
        /\ storage' = SetSizes(storage, newSizes)
        /\ sizes' = newSizes
        /\ pointerEvents' = HandleResizePointerEvents(mounted, pointerEvents)
        /\ dragging' = FALSE
        /\ resized' = [op |-> "finish", newSizes |-> newSizes]
        /\ UNCHANGED mounted
        /\ UNCHANGED suggestionVars

\* The Editor leaves the page: its pane is gone and ref.current is null
Unmount ==
    /\ mounted
    /\ mounted' = FALSE
    /\ pointerEvents' = ""
    /\ resized' = [op |-> "unmount", newSizes |-> <<>>]
    /\ UNCHANGED <<sizes, storage, dragging>>
    /\ UNCHANGED suggestionVars

\* The Editor is rendered again, with a new pane and the stored sizes
Mount ==
    /\ ~mounted
    /\ mounted' = TRUE
    /\ pointerEvents' = ""
    /\ sizes' = ReadSizes(storage)
    /\ resized' = [op |-> "mount", newSizes |-> <<>>]
    /\ UNCHANGED <<storage, dragging>>
    /\ UNCHANGED suggestionVars

\* The Editor as first rendered over the store `store`
EditorInit(store) ==
    /\ mounted = TRUE
    /\ pointerEvents = ""
    /\ sizes = ReadSizes(store)
    /\ storage = store
    /\ dragging = FALSE
    /\ resized = [op |-> "mount", newSizes |-> <<>>]

\* ---------------------------------------------------------- the machine
Init ==
    /\ doc = <<>>
    /\ selection = [from |-> TextFrom + 1, to |-> TextFrom + 1]
    /\ pstate = PluginInit
    /\ renderer \in Renderers
    /\ decos = Decorations(PluginInit)
    /\ dom = {}
    /\ typed = FALSE
    /\ obs = Observe(<<>>, <<>>, <<>>)
    /\ EditorInit(<<>>)

Next ==
    \/ HandleTextInput
    \/ InsertText
    \/ DeleteText
    \/ SetSelection
    \/ HandleKeyDown

Spec == Init /\ [][Next]_vars

\* The project-board Editor alone, over an empty editor document
InitEditor ==
    /\ doc = <<>>
    /\ selection = [from |-> TextFrom + 1, to |-> TextFrom + 1]
    /\ pstate = PluginInit
    /\ renderer = {}
    /\ decos = Decorations(PluginInit)
    /\ dom = {}
    /\ typed = FALSE
    /\ obs = Observe(<<>>, <<>>, <<>>)
    /\ \E store \in {<<>>} \cup { <<Stringify(value)>> : value \in SizeChoices } :
           EditorInit(store)

NextEditor ==
    \/ OnResizeStart
    \/ HandleResize
    \/ Unmount
    \/ Mount

SpecEditor == InitEditor /\ [][NextEditor]_vars

\* ================================================================ claims

\* C1: for every view update that ran to its end, with prev and next the plugin
\* states before and after the transaction: if prev is inactive and next active,
\* the only hook called is onStart; if prev is active and next inactive, the only
\* hook called is onExit; if both are active with the same range.from and a
\* different query, the only hook called is onUpdate. A hook the renderer does
\* not define is skipped, and then the update calls none.
UpdateCallsOneHook ==
    \A i \in 1..Len(upd) :
        LET u == upd[i]
        IN  /\ (~u.prev.active /\ u.next.active) => u.invoked = Call(renderer, "onStart")
            /\ (u.prev.active /\ ~u.next.active) => u.invoked = Call(renderer, "onExit")
            /\ (/\ u.prev.active
                /\ u.next.active
                /\ u.prev.range.from = u.next.range.from
                /\ u.prev.query # u.next.query) => u.invoked = Call(renderer, "onUpdate")

\* An update between two active states with the same range.from and another
\* query called onUpdate alone
UpdateCallsOneHookWitness ==
    /\ upd # <<>>
    /\ upd[1].prev.active
    /\ upd[1].next.active
    /\ upd[1].prev.range.from = upd[1].next.range.from
    /\ upd[1].prev.query # upd[1].next.query
    /\ upd[1].invoked = <<"onUpdate">>

\* C2: whenever the state returned by apply is active, its text and its query
\* begin with the trigger character char.
ActiveOnlyForChar ==
    \A i \in 1..Len(applied) :
        applied[i].next.active =>
            /\ applied[i].next.text[1] = char
            /\ applied[i].next.query[1] = char

\* C3: apply on a state whose wasCharTyped is false returns an inactive state, and
\* a step from an inactive to an active plugin state happens only when
\* handleTextInput saw non-empty text since apply last returned an inactive state.
ActiveOnlyAfterTyping ==
    /\ [](\A i \in 1..Len(applied) :
            ~applied[i].prev.wasCharTyped => ~applied[i].next.active)
    /\ [][(~pstate.active /\ pstate'.active) => typed]_vars

\* apply took an inactive state to an active one after text was typed
ActiveOnlyAfterTypingWitness ==
    /\ applied # <<>>
    /\ ~applied[1].prev.active
    /\ applied[1].next.active
    /\ pstate.active
    /\ typed

\* C4: if allow answers false for the candidate range apply computed, the state
\* apply returns is inactive, decorations returns null for it and the update of
\* that transaction does not call onStart.
RefusedRangeIsInactive ==
    \A i \in 1..Len(applied) :
        (applied[i].allow # <<>> /\ ~applied[i].allow[1].result) =>
            /\ ~applied[i].next.active
            /\ ~pstate.active
            /\ decos = NoDecorations
            /\ \A j \in 1..Len(upd) : \A k \in 1..Len(upd[j].invoked) :
                   upd[j].invoked[k] # "onStart"

\* allow refused the range of a word typed in an active suggestion
RefusedRangeIsInactiveWitness ==
    /\ applied # <<>>
    /\ applied[1].allow # <<>>
    /\ ~applied[1].allow[1].result
    /\ applied[1].prev.active
    /\ ~pstate.active

\* C5: when an update calls onStart or onUpdate for an active state whose
\* decoration is drawn in the document, the props carry as decorationNode the
\* element whose data-decoration-id is the state's decorationID, and a clientRect
\* that is not null.
PropsCarryDecorationNode ==
    \A i \in 1..Len(upd) :
        LET u == upd[i]
        IN  (/\ \E k \in 1..Len(u.invoked) : u.invoked[k] \in {"onStart", "onUpdate"}
             /\ u.next.active
             /\ \E e \in u.elements : e[3] = u.next.decorationID) =>
                /\ u.props.decorationNode \in u.elements
                /\ u.props.decorationNode[3] = u.next.decorationID
                /\ u.props.clientRect # Null

\* C6: decorations returns exactly one inline decoration, spanning range.from to
\* range.to and tagged with the state's decorationID, when the plugin state is
\* active and has a range, and null in every other state.
DecorationsFollowState ==
    IF pstate.active /\ Has(pstate, "range")
    THEN /\ Len(decos) = 1
         /\ decos[1].from = pstate.range.from
         /\ decos[1].to = pstate.range.to
         /\ Has(pstate, "decorationID")
         /\ decos[1].dataDecorationId = pstate.decorationID
    ELSE decos = NoDecorations

\* The active suggestion is decorated, and the decoration is drawn
DecorationsFollowStateWitness ==
    /\ pstate.active
    /\ Has(pstate, "range")
    /\ Len(decos) = 1
    /\ dom # {}

\* C7: the onKeyDown hook is called only when the plugin state is active and has
\* a range; otherwise handleKeyDown returns false without calling it; and when it
\* is called handleKeyDown returns its result, false if the hook is absent or
\* its result is falsy.
KeyDownOnlyWhenActive ==
    \A i \in 1..Len(key) :
        LET k == key[i]
        IN  /\ k.did.called => (k.active /\ k.hasRange)
            /\ ~(k.active /\ k.hasRange) => (~k.did.called /\ k.did.returned = "false")
            /\ (k.active /\ k.hasRange) =>
                   /\ k.did.called = ("onKeyDown" \in renderer)
                   /\ k.did.returned = IF "onKeyDown" \in renderer /\ k.hookResult = "true"
                                       THEN "true" ELSE "false"

\* A key went to the hook of an active suggestion, which handled it
KeyDownOnlyWhenActiveWitness ==
    /\ key # <<>>
    /\ key[1].active
    /\ key[1].did.called
    /\ key[1].did.returned = "true"

\* C8: when an update is an exit only (prev active, next inactive), the props
\* carry the range, query and text of prev, the items are empty and items is not
\* called; items is called, with the query of next, only by an update that
\* triggers onStart or onUpdate.
ExitPropsAndItems ==
    \A i \in 1..Len(upd) :
        LET u == upd[i]
        IN  /\ (u.prev.active /\ ~u.next.active) =>
                   /\ u.props.range = u.prev.range
                   /\ u.props.query = u.prev.query
                   /\ u.props.text = u.prev.text
                   /\ u.props.items = <<>>
                   /\ u.itemsCalls = <<>>
            /\ u.itemsCalls # <<>> =>
                   /\ u.itemsCalls = <<u.next.query>>
                   /\ {"onStart", "onUpdate"} \subseteq renderer =>
                          \E k \in 1..Len(u.invoked) : u.invoked[k] \in {"onStart", "onUpdate"}
            /\ u.itemsCalls = <<>> =>
                   \A k \in 1..Len(u.invoked) : u.invoked[k] \notin {"onStart", "onUpdate"}

\* An exit called onExit with the props of the state that was active
ExitPropsAndItemsWitness ==
    /\ upd # <<>>
    /\ upd[1].prev.active
    /\ ~upd[1].next.active
    /\ upd[1].invoked = <<"onExit">>
    /\ upd[1].props.query = upd[1].prev.query

\* The state is inactive and fully cleared
Cleared(state) ==
    /\ ~Has(state, "range")
    /\ ~Has(state, "decorationID")
    /\ state.query = Null
    /\ state.text = Null
    /\ ~state.wasCharTyped

\* C9: the initial plugin state and every state apply returns, when inactive, has
\* no range, no decorationID, a null query, a null text and wasCharTyped false.
InactiveIsCleared ==
    /\ Cleared(PluginInit)
    /\ \A i \in 1..Len(applied) : ~applied[i].next.active => Cleared(applied[i].next)

\* apply returned an inactive state from an active one
InactiveIsClearedWitness ==
    /\ applied # <<>>
    /\ applied[1].prev.active
    /\ ~applied[1].next.active
    /\ pstate = applied[1].next

\* The cursor of the transaction lies outside the range of prev
CursorLeftRange(a) ==
    /\ Has(a.prev, "range")
    /\ \/ a.selection.from < a.prev.range.from
       \/ a.selection.from > a.prev.range.to

\* C10 (as stated): if the cursor after a transaction lies outside the previous
\* suggestion range, the state apply returns is inactive.
LeavingRangeDeactivates ==
    \A i \in 1..Len(applied) :
        CursorLeftRange(applied[i]) => ~applied[i].next.active

\* C10 (amended): if the cursor after a transaction lies outside the previous
\* suggestion range, the state apply returns is inactive, unless the selection is
\* empty, a character that is not white space stands right before the cursor in
\* its textblock and allow accepts the range of the word ending there; then it
\* is active and its range ends at the cursor.
LeavingRangeDeactivatesUnlessWord ==
    \A i \in 1..Len(applied) :
        LET a == applied[i]
        IN  CursorLeftRange(a) =>
                /\ a.next.active <=>
                       /\ selection.from = selection.to
                       /\ At(selection.from) > 1
                       /\ ~IsSpace(doc[At(selection.from) - 1])
                       /\ a.allow # <<>>
                       /\ a.allow[1].result
                /\ a.next.active => a.next.range.to = selection.from

\* The cursor left the range of an active suggestion for a place with no text
\* before it, and the state came back inactive
LeavingRangeDeactivatesUnlessWordWitness ==
    /\ applied # <<>>
    /\ CursorLeftRange(applied[1])
    /\ selection.from = selection.to
    /\ At(selection.from) = 1
    /\ ~applied[1].next.active

\* C11: the left pane's pointer events are 'none' only between a resize start and
\* the following resize finish; after every resize finish they are 'auto' and
\* the item stored under 'project-board-splitter-sizes' is the sizes that resize
\* reported.
PointerEventsFollowResize ==
    /\ pointerEvents = "none" => dragging
    /\ resized.op = "finish" =>
           /\ pointerEvents = "auto"
           /\ storage # <<>>
           /\ Parse(storage[1]) = resized.newSizes
           /\ ReadSizes(storage) = resized.newSizes

\* A resize that started finished with sizes other than the stored ones had been
PointerEventsFollowResizeWitness ==
    /\ resized.op = "finish"
    /\ resized.newSizes # DefaultSizes
    /\ pointerEvents = "auto"
    /\ storage = <<Stringify(resized.newSizes)>>
    /\ ~dragging

====
